---- MODULE Spec2Model ----
(***************************************************************************)
(* mdview (src/src/main.rs): a markdown live-preview tool.                 *)
(*                                                                         *)
(* main checks its arguments, renders the file once, spawns a watch task   *)
(* (notify watcher + debounce loop) and then serves output.html and        *)
(* status.json over HTTP.  The model has one process for main / the HTTP   *)
(* server, one for the watch task, and an environment that edits the       *)
(* watched file, lets time pass and sends HTTP requests.                   *)
(*                                                                         *)
(* Time: `now` counts wall-clock time in units of the debounce interval    *)
(* (100 ms); chrono's timestamp_millis() is now * DebounceMs.  Two events  *)
(* at the same value of `now` are less than one debounce interval apart.   *)
(* The clock advances where the program waits: by one unit when the        *)
(* receive timeout elapses and when the debounce sleep ends.               *)
(*                                                                         *)
(* Files: std::fs::write is File::create (open + truncate) followed by     *)
(* write_all, two system calls; a reader in between sees an empty file.    *)
(***************************************************************************)
EXTENDS Naturals, Sequences, FiniteSets

VARIABLES
    pcMain,      \* position of main: "args","exists","initRender","spawn","bind","serving","exited"
    exitCode,    \* "running", or "failure" once the process has exited non-zero
    wpc,         \* position of the watch task
    queue,       \* mpsc channel rx: notifications not yet received
    trigger,     \* kind of the notification that started the current debounce
    srcExists,   \* the markdown file exists
    srcVer,      \* version of the markdown file's contents
    outFile,     \* output.html on disk
    statFile,    \* status.json on disk
    now,         \* wall clock, in debounce intervals
    pass,        \* number of render_markdown calls started so far
    rpc,         \* per caller: position inside render_markdown
    rloc,        \* per caller: locals of render_markdown (pass, markdown, timestamp)
    rres,        \* per caller: result of its last finished render_markdown call
    nErr,        \* lines written to the error stream
    nEvents,     \* notifications sent by the watcher so far
    burst,       \* history of the qualifying notifications sent so far
    watchRenders,\* render_markdown calls made by the watch loop
    lastCycle,   \* how the watch loop's last debounce cycle ended
    pollLast,    \* timestamp the poller received from its latest GET /status.json
    docResp,     \* outcome of the latest GET / or GET /output.html
    okTs,        \* largest timestamp written by a render that returned Ok
    req,         \* the client's latest HTTP request: its route, pending or answered
    bpc,         \* browser tab: position of the page's script
    bShown,      \* browser tab: the page it displays
    bLast,       \* browser tab: the script's lastUpdate (<<>> is null)
    bSeen        \* browser tab: data.timestamp of the latest poll (<<>>: none yet)

vars == <<pcMain, exitCode, wpc, queue, trigger, srcExists, srcVer, outFile,
          statFile, now, pass, rpc, rloc, rres, nErr, nEvents, burst,
          watchRenders, lastCycle, pollLast, docResp, okTs, req, bpc,
          bShown, bLast, bSeen>>

\* the state of the browser tab
browser == <<bpc, bShown, bLast, bSeen>>

----------------------------------------------------------------------------
(* Bounds of the model *)

\* notifications the watcher sends in one run
MaxEvents == 2
\* content versions of the markdown file
MaxVer == 2
\* last clock value at which a receive timeout of the watch loop may still elapse
MaxClock == 2

(* Program constants *)

\* Duration::from_millis(100) of the debounce sleep
DebounceMs == 100

----------------------------------------------------------------------------
(* Data *)

Callers == {"main", "watch"}

\* notify::EventKind, as far as the match in the watch loop can tell the
\* kinds apart, with ModifyKind::Data and ModifyKind::Metadata kept apart;
\* "Error" is a notification that is Err(notify::Error)
EventKinds == {"ModifyData", "ModifyMetadata", "Create", "Remove", "Access", "Error"}

\* the kinds that change what the file contains
ContentAffecting == {"ModifyData", "Create"}

\* EventKind::Modify(_) | EventKind::Create(_)
Qualifying(kind) == kind \in {"ModifyData", "ModifyMetadata", "Create"}

\* a file that does not exist
NoFile == [state |-> "missing", pass |-> 0, ts |-> 0, src |-> 0]

\* File::create succeeded: the file exists and is empty
Truncated(p) == [state |-> "truncated", pass |-> p, ts |-> 0, src |-> 0]

\* write_all succeeded: the file holds what render pass p formatted
Written(p, t, s) == [state |-> "full", pass |-> p, ts |-> t, src |-> s]

\* chrono::Local::now().timestamp_millis()
TimestampMillis == now * DebounceMs

NoLocals == [pass |-> 0, src |-> 0, ts |-> 0]

\* no document request has been made yet
NoResponse == [kind |-> "none", pass |-> 0]

\* the client has sent no request yet
NoRequest == [route |-> "none", phase |-> "answered"]

NoBurst == [n |-> 0, at |-> 0, tight |-> TRUE, gone |-> FALSE]

----------------------------------------------------------------------------
Init ==
    /\ pcMain = "args"
    /\ exitCode = "running"
    /\ wpc = "notspawned"
    /\ queue = <<>>
    /\ trigger = "none"
    /\ srcExists \in BOOLEAN
    /\ srcVer = 1
    /\ outFile = NoFile
    /\ statFile = NoFile
    /\ now = 1
    /\ pass = 0
    /\ rpc = [c \in Callers |-> "idle"]
    /\ rloc = [c \in Callers |-> NoLocals]
    /\ rres = [c \in Callers |-> "none"]
    /\ nErr = 0
    /\ nEvents = 0
    /\ burst = NoBurst
    /\ watchRenders = 0
    /\ lastCycle = "none"
    /\ pollLast = 0
    /\ docResp = NoResponse
    /\ okTs = 0
    /\ req = NoRequest
    /\ bpc = "closed"
    /\ bShown = NoResponse
    /\ bLast = <<>>
    /\ bSeen = <<>>

----------------------------------------------------------------------------
(* render_markdown, called by main (initial render) or by the watch loop *)

\* line 33: `render_markdown(&input_path)?` - Ok goes on, Err leaves main
MainAfterInitialRender(res) == IF res = "ok" THEN "spawn" ELSE "exited"

\* a watch loop that unwraps the render result: an Err ends the task
WatchAfterRenderUnwrap(res) == IF res = "err" THEN "panicked" ELSE "recv"

\* lines 54-57: the error is printed and the loop goes on
WatchAfterRender(res) == "recv"

\* the call: a new render pass starts with fresh locals
RenderCall(c) ==
    /\ pass' = pass + 1
    /\ rpc' = [rpc EXCEPT ![c] = "read"]
    /\ rloc' = [rloc EXCEPT ![c] = [pass |-> pass + 1, src |-> 0, ts |-> 0]]

\* the return of render_markdown to its caller, with what the caller does
\* with the result
RenderReturn(c, res) ==
    /\ rpc' = [rpc EXCEPT ![c] = "idle"]
    /\ rres' = [rres EXCEPT ![c] = res]
    /\ nErr' = IF res = "err" THEN nErr + 1 ELSE nErr
    /\ IF c = "main"
       THEN /\ pcMain' = MainAfterInitialRender(res)
            /\ exitCode' = IF pcMain' = "exited" THEN "failure" ELSE exitCode
            /\ UNCHANGED <<wpc, lastCycle, trigger>>
       ELSE /\ wpc' = WatchAfterRender(res)
            /\ lastCycle' = res
            /\ trigger' = "none"
            /\ UNCHANGED <<pcMain, exitCode>>

\* the process is alive and caller c is at position p of render_markdown
RenderAt(c, p) == pcMain # "exited" /\ rpc[c] = p

\* line 96: fs::read_to_string(input_path)?
RenderRead(c) ==
    /\ RenderAt(c, "read")
    /\ \E io \in BOOLEAN :
          IF io /\ srcExists
          THEN /\ rpc' = [rpc EXCEPT ![c] = "stamp"]
               /\ rloc' = [rloc EXCEPT ![c].src = srcVer]
               /\ UNCHANGED <<pcMain, exitCode, wpc, lastCycle, trigger, rres, nErr>>
          ELSE /\ RenderReturn(c, "err")
               /\ UNCHANGED rloc
    /\ UNCHANGED <<queue, srcExists, srcVer, outFile, statFile, now, pass, nEvents,
                   burst, watchRenders, pollLast, docResp>>
    /\ UNCHANGED <<okTs, req, browser>>

\* lines 97-102: convert, take the timestamp, format the status record
RenderStamp(c) ==
    /\ RenderAt(c, "stamp")
    /\ rpc' = [rpc EXCEPT ![c] = "statCreate"]
    /\ rloc' = [rloc EXCEPT ![c].ts = TimestampMillis]
    /\ UNCHANGED <<pcMain, exitCode, wpc, queue, trigger, srcExists, srcVer, outFile,
                   statFile, now, pass, rres, nErr, nEvents, burst, watchRenders,
                   lastCycle, pollLast, docResp>>
    /\ UNCHANGED <<okTs, req, browser>>

\* line 103, first half: fs::write opens status.json with truncation
RenderStatCreate(c) ==
    /\ RenderAt(c, "statCreate")
    /\ \E io \in BOOLEAN :
          IF io
          THEN /\ statFile' = Truncated(rloc[c].pass)
               /\ rpc' = [rpc EXCEPT ![c] = "statWrite"]
               /\ UNCHANGED <<pcMain, exitCode, wpc, lastCycle, trigger, rres, nErr>>
          ELSE /\ RenderReturn(c, "err")
               /\ UNCHANGED statFile
    /\ UNCHANGED <<queue, srcExists, srcVer, outFile, now, pass, rloc, nEvents,
                   burst, watchRenders, pollLast, docResp>>
    /\ UNCHANGED <<okTs, req, browser>>

\* line 103, second half: write_all of the status record, `?` on failure
RenderStatWrite(c) ==
    /\ RenderAt(c, "statWrite")
    /\ \E io \in BOOLEAN :
          IF io
          THEN /\ statFile' = Written(rloc[c].pass, rloc[c].ts, 0)
               /\ rpc' = [rpc EXCEPT ![c] = "outCreate"]
               /\ UNCHANGED <<pcMain, exitCode, wpc, lastCycle, trigger, rres, nErr>>
          ELSE /\ RenderReturn(c, "err")
               /\ UNCHANGED statFile
    /\ UNCHANGED <<queue, srcExists, srcVer, outFile, now, pass, rloc, nEvents,
                   burst, watchRenders, pollLast, docResp>>
    /\ UNCHANGED <<okTs, req, browser>>

\* line 465, first half: fs::write opens output.html with truncation
RenderOutCreate(c) ==
    /\ RenderAt(c, "outCreate")
    /\ \E io \in BOOLEAN :
          IF io
          THEN /\ outFile' = Truncated(rloc[c].pass)
               /\ rpc' = [rpc EXCEPT ![c] = "outWrite"]
               /\ UNCHANGED <<pcMain, exitCode, wpc, lastCycle, trigger, rres, nErr>>
          ELSE /\ RenderReturn(c, "err")
               /\ UNCHANGED outFile
    /\ UNCHANGED <<queue, srcExists, srcVer, statFile, now, pass, rloc, nEvents,
                   burst, watchRenders, pollLast, docResp>>
    /\ UNCHANGED <<okTs, req, browser>>

\* lines 465-467: write_all of the document, then Ok(())
RenderOutWrite(c) ==
    /\ RenderAt(c, "outWrite")
    /\ \E io \in BOOLEAN :
          IF io
          THEN /\ outFile' = Written(rloc[c].pass, 0, rloc[c].src)
               /\ okTs' = IF rloc[c].ts > okTs THEN rloc[c].ts ELSE okTs
               /\ RenderReturn(c, "ok")
          ELSE /\ RenderReturn(c, "err")
               /\ UNCHANGED <<outFile, okTs>>
    /\ UNCHANGED <<queue, srcExists, srcVer, statFile, now, pass, rloc, nEvents,
                   burst, watchRenders, pollLast, docResp>>
    /\ UNCHANGED <<req, browser>>

Render(c) ==
    \/ RenderRead(c)
    \/ RenderStamp(c)
    \/ RenderStatCreate(c)
    \/ RenderStatWrite(c)
    \/ RenderOutCreate(c)
    \/ RenderOutWrite(c)

----------------------------------------------------------------------------
(* main *)

\* what main may be given on the command line: args.len()
ArgCounts == {1, 2, 3}

\* process exit with a non-zero status, after one line on the error stream
ExitFailure ==
    /\ pcMain' = "exited"
    /\ exitCode' = "failure"
    /\ nErr' = nErr + 1

\* lines 20-24: usage error unless there is exactly one argument
CheckArgs ==
    /\ pcMain = "args"
    /\ \E argc \in ArgCounts :
          IF argc # 2
          THEN ExitFailure
          ELSE pcMain' = "exists" /\ UNCHANGED <<exitCode, nErr>>
    /\ UNCHANGED <<wpc, queue, trigger, srcExists, srcVer, outFile, statFile, now,
                   pass, rpc, rloc, rres, nEvents, burst, watchRenders, lastCycle,
                   pollLast, docResp>>
    /\ UNCHANGED <<okTs, req, browser>>

\* lines 26-33: the input file must exist; then the initial render is called
CheckExists ==
    /\ pcMain = "exists"
    /\ IF ~srcExists
       THEN ExitFailure /\ UNCHANGED <<pass, rpc, rloc>>
       ELSE /\ pcMain' = "initRender"
            /\ RenderCall("main")
            /\ UNCHANGED <<exitCode, nErr>>
    /\ UNCHANGED <<wpc, queue, trigger, srcExists, srcVer, outFile, statFile, now,
                   rres, nEvents, burst, watchRenders, lastCycle, pollLast, docResp>>
    /\ UNCHANGED <<okTs, req, browser>>

\* a main that spawns the watch task without waiting for the initial render
CanSpawnEarly == pcMain \in {"initRender", "spawn"}

\* main has reached tokio::spawn (line 38), after the initial render returned Ok
CanSpawn == pcMain = "spawn"

\* lines 35-38: the watch task is spawned; main goes on to build the router
Spawn ==
    /\ CanSpawn
    /\ pcMain' = "bind"
    /\ wpc' = "new"
    /\ UNCHANGED <<exitCode, queue, trigger, srcExists, srcVer, outFile, statFile,
                   now, pass, rpc, rloc, rres, nErr, nEvents, burst, watchRenders,
                   lastCycle, pollLast, docResp>>
    /\ UNCHANGED <<okTs, req, browser>>

\* lines 74-79: TcpListener::bind(...).await? then axum::serve
Bind ==
    /\ pcMain = "bind"
    /\ \E io \in BOOLEAN :
          IF io
          THEN pcMain' = "serving" /\ UNCHANGED <<exitCode, nErr>>
          ELSE ExitFailure
    /\ UNCHANGED <<wpc, queue, trigger, srcExists, srcVer, outFile, statFile, now,
                   pass, rpc, rloc, rres, nEvents, burst, watchRenders, lastCycle,
                   pollLast, docResp>>
    /\ UNCHANGED <<okTs, req, browser>>

----------------------------------------------------------------------------
(* the watch task, lines 38-66 *)

\* the task exists only while the process does
WatchAt(p) == pcMain # "exited" /\ wpc = p

\* the watch is registered: filesystem changes produce notifications
Registered == wpc \in {"recv", "sleep", "render"}

\* .unwrap() on an Err: the task panics (one message on the error stream);
\* a panic inside a spawned tokio task ends that task only
TaskPanic ==
    /\ wpc' = "panicked"
    /\ nErr' = nErr + 1

\* line 40: RecommendedWatcher::new(tx, Config::default()).unwrap()
WatcherNew ==
    /\ WatchAt("new")
    /\ \E io \in BOOLEAN :
          IF io THEN wpc' = "watch" /\ UNCHANGED nErr ELSE TaskPanic
    /\ UNCHANGED <<pcMain, exitCode, queue, trigger, srcExists, srcVer, outFile,
                   statFile, now, pass, rpc, rloc, rres, nEvents, burst,
                   watchRenders, lastCycle, pollLast, docResp>>
    /\ UNCHANGED <<okTs, req, browser>>

\* line 41: watcher.watch(&path, NonRecursive).unwrap()
WatcherWatch ==
    /\ WatchAt("watch")
    /\ \E io \in BOOLEAN :
          IF io /\ srcExists THEN wpc' = "recv" /\ UNCHANGED nErr ELSE TaskPanic
    /\ UNCHANGED <<pcMain, exitCode, queue, trigger, srcExists, srcVer, outFile,
                   statFile, now, pass, rpc, rloc, rres, nEvents, burst,
                   watchRenders, lastCycle, pollLast, docResp>>
    /\ UNCHANGED <<okTs, req, browser>>

\* a receive that also throws away whatever else is waiting in the channel
RecvDrain ==
    /\ WatchAt("recv")
    /\ queue # <<>>
    /\ queue' = <<>>
    /\ IF Qualifying(Head(queue))
       THEN wpc' = "sleep" /\ trigger' = Head(queue)
       ELSE UNCHANGED <<wpc, trigger>>
    /\ UNCHANGED <<pcMain, exitCode, srcExists, srcVer, outFile, statFile, now, pass,
                   rpc, rloc, rres, nErr, nEvents, burst, watchRenders, lastCycle,
                   pollLast, docResp>>
    /\ UNCHANGED <<okTs, req, browser>>

\* lines 46-50 and 59-61: a notification is received; Modify(_) and Create(_)
\* start the debounce sleep, everything else is dropped
Recv ==
    /\ WatchAt("recv")
    /\ queue # <<>>
    /\ queue' = Tail(queue)
    /\ IF Qualifying(Head(queue))
       THEN wpc' = "sleep" /\ trigger' = Head(queue)
       ELSE UNCHANGED <<wpc, trigger>>
    /\ UNCHANGED <<pcMain, exitCode, srcExists, srcVer, outFile, statFile, now, pass,
                   rpc, rloc, rres, nErr, nEvents, burst, watchRenders, lastCycle,
                   pollLast, docResp>>
    /\ UNCHANGED <<okTs, req, browser>>

\* lines 46 and 63: recv_timeout elapses with nothing to receive; one
\* interval of 100 ms has passed
RecvTimeout ==
    /\ WatchAt("recv")
    /\ queue = <<>>
    /\ now < MaxClock
    /\ now' = now + 1
    /\ UNCHANGED <<pcMain, exitCode, wpc, queue, trigger, srcExists, srcVer, outFile,
                   statFile, pass, rpc, rloc, rres, nErr, nEvents, burst,
                   watchRenders, lastCycle, pollLast, docResp>>
    /\ UNCHANGED <<okTs, req, browser>>

\* a sleep during which the clock does not advance
AfterSleepNoAdvance(t) == t

\* line 52: the clock after tokio::time::sleep(Duration::from_millis(100)),
\* at least one debounce interval later
AfterSleep(t) == t + 1

\* a watch loop with the existence check inverted
ShouldRenderInverted == ~srcExists

\* a watch loop without the existence check
ShouldRenderAlways == TRUE

\* line 53: input_path_clone.exists()
ShouldRender == srcExists

\* lines 52-54: the debounce sleep is over; the file is rendered if it exists
DebounceElapsed ==
    /\ WatchAt("sleep")
    /\ now' = AfterSleep(now)
    /\ IF ShouldRender
       THEN /\ wpc' = "render"
            /\ RenderCall("watch")
            /\ watchRenders' = watchRenders + 1
            /\ UNCHANGED <<lastCycle, trigger>>
       ELSE /\ wpc' = "recv"
            /\ lastCycle' = "skipped"
            /\ trigger' = "none"
            /\ UNCHANGED <<pass, rpc, rloc, watchRenders>>
    /\ UNCHANGED <<pcMain, exitCode, queue, srcExists, srcVer, outFile, statFile,
                   rres, nErr, nEvents, burst, pollLast, docResp>>
    /\ UNCHANGED <<okTs, req, browser>>

Watch ==
    \/ WatcherNew
    \/ WatcherWatch
    \/ Recv
    \/ RecvTimeout
    \/ DebounceElapsed
    \/ Render("watch")

----------------------------------------------------------------------------
(* the environment: the user's editor, the filesystem watcher, the clock *)

\* the process is alive; what happens after its exit is not of interest
Alive == pcMain # "exited"

\* the qualifying notifications sent so far: how many, when the first one
\* was sent, and whether all of them were sent within one debounce interval
BurstAfter(kind) ==
    IF Qualifying(kind)
    THEN [burst EXCEPT !.n = burst.n + 1,
                       !.at = IF burst.n = 0 THEN now ELSE burst.at,
                       !.tight = burst.tight /\ (burst.n = 0 \/ burst.at = now)]
    ELSE burst

\* the watcher (notify's backend thread) sends a notification into the
\* channel of line 39 once the watch of line 41 is registered
Notify(kind) ==
    IF Registered
    THEN /\ nEvents < MaxEvents
         /\ nEvents' = nEvents + 1
         /\ queue' = Append(queue, kind)
         /\ burst' = BurstAfter(kind)
    ELSE UNCHANGED <<nEvents, queue, burst>>

\* the user saves new contents into the markdown file
UserWrite ==
    /\ Alive
    /\ srcExists
    /\ srcVer < MaxVer
    /\ srcVer' = srcVer + 1
    /\ Notify("ModifyData")
    /\ UNCHANGED <<pcMain, exitCode, wpc, trigger, srcExists, outFile, statFile, now,
                   pass, rpc, rloc, rres, nErr, watchRenders, lastCycle, pollLast, docResp>>
    /\ UNCHANGED <<okTs, req, browser>>

\* the user changes the file's permissions or times (chmod, touch -a)
UserChmod ==
    /\ Alive
    /\ srcExists
    /\ Registered
    /\ Notify("ModifyMetadata")
    /\ UNCHANGED <<pcMain, exitCode, wpc, trigger, srcExists, srcVer, outFile,
                   statFile, now, pass, rpc, rloc, rres, nErr, watchRenders,
                   lastCycle, pollLast, docResp>>
    /\ UNCHANGED <<okTs, req, browser>>

\* some program opens or reads the file
UserAccess ==
    /\ Alive
    /\ srcExists
    /\ Registered
    /\ Notify("Access")
    /\ UNCHANGED <<pcMain, exitCode, wpc, trigger, srcExists, srcVer, outFile,
                   statFile, now, pass, rpc, rloc, rres, nErr, watchRenders,
                   lastCycle, pollLast, docResp>>
    /\ UNCHANGED <<okTs, req, browser>>

\* the user deletes (or moves away) the markdown file
UserRemove ==
    /\ Alive
    /\ srcExists
    /\ srcExists' = FALSE
    /\ IF Registered
       THEN /\ nEvents < MaxEvents
            /\ nEvents' = nEvents + 1
            /\ queue' = Append(queue, "Remove")
            /\ burst' = [burst EXCEPT !.gone = TRUE]
       ELSE UNCHANGED <<nEvents, queue, burst>>
    /\ UNCHANGED <<pcMain, exitCode, wpc, trigger, srcVer, outFile, statFile, now,
                   pass, rpc, rloc, rres, nErr, watchRenders, lastCycle, pollLast, docResp>>
    /\ UNCHANGED <<okTs, req, browser>>

\* the user creates the markdown file again, with the contents it last had
UserCreate ==
    /\ Alive
    /\ ~srcExists
    /\ srcExists' = TRUE
    /\ Notify("Create")
    /\ UNCHANGED <<pcMain, exitCode, wpc, trigger, srcVer, outFile, statFile, now,
                   pass, rpc, rloc, rres, nErr, watchRenders, lastCycle, pollLast, docResp>>
    /\ UNCHANGED <<okTs, req, browser>>

\* the watcher reports an error of its own: the notification is an Err
WatcherError ==
    /\ Alive
    /\ Registered
    /\ Notify("Error")
    /\ UNCHANGED <<pcMain, exitCode, wpc, trigger, srcExists, srcVer, outFile,
                   statFile, now, pass, rpc, rloc, rres, nErr, watchRenders,
                   lastCycle, pollLast, docResp>>
    /\ UNCHANGED <<okTs, req, browser>>

Environment ==
    \/ UserWrite
    \/ UserChmod
    \/ UserAccess
    \/ UserRemove
    \/ UserCreate
    \/ WatcherError

----------------------------------------------------------------------------
(* the HTTP handlers, lines 84-93, and the clients that call them *)

\* fs::read_to_string(path): Err for a missing file, else the contents,
\* which are empty between the two halves of an fs::write
ReadToString(file) ==
    IF file.state = "missing" THEN [ok |-> FALSE, empty |-> FALSE, file |-> file]
    ELSE [ok |-> TRUE, empty |-> file.state = "truncated", file |-> file]

\* line 91: serde_json::from_str(&content).unwrap_or(json!({"timestamp": 0}));
\* the empty string is not JSON, r#"{"timestamp":N}"# parses to N
ParseStatus(r) == IF r.empty THEN 0 ELSE r.file.ts

\* a status handler that repeats its last answer when the file is unreadable
ServeStatusKeepLast ==
    LET r == ReadToString(statFile)
    IN  IF r.ok /\ ~r.empty THEN ParseStatus(r) ELSE pollLast

\* lines 89-93: serve_status; a read error is replaced by {"timestamp":0}
ServeStatus ==
    LET r == ReadToString(statFile)
    IN  IF r.ok THEN ParseStatus(r) ELSE 0

\* a document handler that keeps the first document it has read in memory
ServeHtmlCached ==
    LET r == ReadToString(outFile)
    IN  IF docResp.kind = "document" THEN docResp
        ELSE IF ~r.ok THEN [kind |-> "placeholder", pass |-> 0]
        ELSE IF r.empty THEN [kind |-> "empty", pass |-> 0]
        ELSE [kind |-> "document", pass |-> r.file.pass]

\* lines 84-87: serve_html; a read error is replaced by "Error loading file"
ServeHtml ==
    LET r == ReadToString(outFile)
    IN  IF ~r.ok THEN [kind |-> "placeholder", pass |-> 0]
        ELSE IF r.empty THEN [kind |-> "empty", pass |-> 0]
        ELSE [kind |-> "document", pass |-> r.file.pass]

\* axum::serve is running (line 79)
Serving == pcMain = "serving"

\* the poller's GET /status.json is answered
GetStatus ==
    /\ Serving
    /\ pollLast' = ServeStatus
    /\ UNCHANGED <<pcMain, exitCode, wpc, queue, trigger, srcExists, srcVer, outFile,
                   statFile, now, pass, rpc, rloc, rres, nErr, nEvents, burst,
                   watchRenders, lastCycle, docResp>>
    /\ UNCHANGED <<okTs, req, browser>>

\* a GET / or GET /output.html: answered by serve_html while the server
\* runs, refused when no listener is bound
GetDocument ==
    /\ docResp' = IF Serving THEN ServeHtml ELSE [kind |-> "refused", pass |-> 0]
    /\ UNCHANGED <<pcMain, exitCode, wpc, queue, trigger, srcExists, srcVer, outFile,
                   statFile, now, pass, rpc, rloc, rres, nErr, nEvents, burst,
                   watchRenders, lastCycle, pollLast>>
    /\ UNCHANGED <<okTs, req, browser>>

Clients ==
    \/ GetStatus
    \/ GetDocument

----------------------------------------------------------------------------
Main ==
    \/ CheckArgs
    \/ CheckExists
    \/ Render("main")
    \/ Spawn
    \/ Bind

Next ==
    \/ Main
    \/ Watch
    \/ Environment
    \/ Clients

Spec == Init /\ [][Next]_vars

\* the scheduler runs the watch task: it has a worker thread of its own
FairSpec == Spec /\ WF_vars(Watch)

----------------------------------------------------------------------------
(* the server seen one request at a time: a client sends a request for a   *)
(* route, the router picks the handler, the handler answers; the files may *)
(* be deleted behind the program's back                                    *)

\* the paths a client may ask for; "/favicon.ico" stands for any other path
Routes == {"/", "/output.html", "/status.json", "/favicon.ico"}

\* lines 69-72: the routes of the Router and their handlers
Router(route) ==
    CASE route = "/" -> "serve_html"
      [] route = "/output.html" -> "serve_html"
      [] route = "/status.json" -> "serve_status"
      [] OTHER -> "not_found"

\* a client sends GET route to the running server
SendRequest ==
    /\ Serving
    /\ req.phase = "answered"
    /\ \E route \in Routes : req' = [route |-> route, phase |-> "pending"]
    /\ UNCHANGED <<pcMain, exitCode, wpc, queue, trigger, srcExists, srcVer, outFile,
                   statFile, now, pass, rpc, rloc, rres, nErr, nEvents, burst,
                   watchRenders, lastCycle, pollLast, docResp, okTs, browser>>

\* a handler that rewrites a status file it cannot parse
HandleRequestRepairing ==
    /\ Serving
    /\ req.phase = "pending"
    /\ req' = [req EXCEPT !.phase = "answered"]
    /\ pollLast' = IF Router(req.route) = "serve_status" THEN ServeStatus ELSE pollLast
    /\ statFile' = IF Router(req.route) = "serve_status" /\ statFile.state # "full"
                   THEN Written(0, 0, 0) ELSE statFile
    /\ docResp' = IF Router(req.route) = "serve_html" THEN ServeHtml ELSE docResp
    /\ UNCHANGED <<pcMain, exitCode, wpc, queue, trigger, srcExists, srcVer, outFile,
                   now, pass, rpc, rloc, rres, nErr, nEvents, burst,
                   watchRenders, lastCycle, okTs, browser>>

\* lines 69-72 and 84-93: the pending request is routed and answered;
\* a path without a route gets the framework's 404
HandleRequest ==
    /\ Serving
    /\ req.phase = "pending"
    /\ req' = [req EXCEPT !.phase = "answered"]
    /\ CASE Router(req.route) = "serve_html" ->
              docResp' = ServeHtml /\ UNCHANGED pollLast
         [] Router(req.route) = "serve_status" ->
              pollLast' = ServeStatus /\ UNCHANGED docResp
         [] OTHER ->
              docResp' = [kind |-> "not_found", pass |-> 0] /\ UNCHANGED pollLast
    /\ UNCHANGED <<pcMain, exitCode, wpc, queue, trigger, srcExists, srcVer, outFile,
                   statFile, now, pass, rpc, rloc, rres, nErr, nEvents, burst,
                   watchRenders, lastCycle, okTs, browser>>

\* somebody deletes output.html or status.json while no render is writing
ArtifactRemoved ==
    /\ Serving
    /\ \A c \in Callers : rpc[c] = "idle"
    /\ \/ outFile.state # "missing" /\ outFile' = NoFile /\ UNCHANGED statFile
       \/ statFile.state # "missing" /\ statFile' = NoFile /\ UNCHANGED outFile
    /\ UNCHANGED <<pcMain, exitCode, wpc, queue, trigger, srcExists, srcVer,
                   now, pass, rpc, rloc, rres, nErr, nEvents, burst,
                   watchRenders, lastCycle, pollLast, docResp, okTs, req, browser>>

Requests ==
    \/ SendRequest
    \/ HandleRequest
    \/ ArtifactRemoved

NextServe ==
    \/ Main
    \/ Watch
    \/ UserWrite
    \/ Requests

\* the program with a client that sends one request at a time
ServeSpec == Init /\ [][NextServe]_vars

----------------------------------------------------------------------------
(* the page in a browser: the script embedded in the rendered document      *)
(* (lines 394-421) fetches /status.json once, then polls it and reloads     *)

\* everything but the browser
program == <<pcMain, exitCode, wpc, queue, trigger, srcExists, srcVer, outFile,
             statFile, now, pass, rpc, rloc, rres, nErr, nEvents, burst,
             watchRenders, lastCycle, pollLast, docResp, okTs, req>>

\* a response of serve_html carries the script only when it is a rendered
\* document; the placeholder and an empty body are static pages
PageState(page) == IF page.kind = "document" THEN "loaded" ELSE "static"

\* line 410: the condition under which a poll schedules the reload
ShouldReload(v) ==
    /\ bLast # <<>>
    /\ v # 0
    /\ v # bLast[1]

\* the user opens http://localhost:6969/ (line 76); the page is what serve_html
\* answers, and lastUpdate starts as null (line 396)
BrowserOpen ==
    /\ Serving
    /\ bpc = "closed"
    /\ bShown' = ServeHtml
    /\ bpc' = PageState(ServeHtml)
    /\ bLast' = <<>>
    /\ bSeen' = <<>>
    /\ UNCHANGED program

\* lines 398-403: the fetch made on load; its answer is remembered, a failed
\* fetch is logged and leaves lastUpdate null
InitialFetch ==
    /\ bpc = "loaded"
    /\ \E net \in BOOLEAN :
          bLast' = IF net THEN <<ServeStatus>> ELSE <<>>
    /\ bpc' = "polling"
    /\ UNCHANGED <<bShown, bSeen>>
    /\ UNCHANGED program

\* lines 405-418: one tick of the 500 ms interval whose fetch is answered; the
\* reload is scheduled (line 412) when the condition of line 410 holds
Poll ==
    /\ bpc = "polling"
    /\ bSeen' = <<ServeStatus>>
    /\ bpc' = IF ShouldReload(ServeStatus) THEN "reloading" ELSE "polling"
    /\ UNCHANGED <<bShown, bLast>>
    /\ UNCHANGED program

\* line 412: window.location.reload() asks for the page again and restarts
\* its script
Reload ==
    /\ bpc = "reloading"
    /\ bShown' = ServeHtml
    /\ bpc' = PageState(ServeHtml)
    /\ bLast' = <<>>
    /\ bSeen' = <<>>
    /\ UNCHANGED program

Browser ==
    \/ BrowserOpen
    \/ InitialFetch
    \/ Poll
    \/ Reload

NextBrowser ==
    \/ Main
    \/ Watch
    \/ UserWrite
    \/ Browser

\* the program with one browser tab on the page
BrowserSpec == Init /\ [][NextBrowser]_vars

----------------------------------------------------------------------------
(* Claims *)

\* caller c is inside render_markdown
Rendering(c) == rpc[c] # "idle"

\* C1: whenever status.json holds the timestamp of render pass k,
\* output.html already holds the document of pass k (or of a later pass):
\* the status is never written before the document it describes.
C1_StatusNotBeforeDocument ==
    statFile.state = "full" =>
        (outFile.state = "full" /\ outFile.pass >= statFile.pass)

\* C2: when all qualifying notifications sent so far arrived within one
\* debounce interval, the file existed throughout, no error occurred, a
\* quiet interval has passed and the watch loop is idle with nothing left
\* to receive, the loop has called the renderer exactly once.
C2_BurstRendersOnce ==
    (/\ wpc = "recv"
     /\ nErr = 0
     /\ queue = <<>>
     /\ burst.n >= 1
     /\ burst.tight
     /\ ~burst.gone
     /\ now > burst.at)
    => watchRenders = 1

\* C3: a render is all-or-nothing: after render_markdown returned Err,
\* neither output.html nor status.json has been touched by that pass, and
\* the error was reported; after it returned Ok (and until the next pass
\* starts) both files are the ones that pass wrote.
C3_RenderAllOrNothing ==
    \A c \in Callers :
        /\ (~Rendering(c) /\ rres[c] = "err") =>
              (/\ outFile.pass # rloc[c].pass
               /\ statFile.pass # rloc[c].pass
               /\ nErr >= 1)
        /\ (~Rendering(c) /\ rres[c] = "ok" /\ pass = rloc[c].pass) =>
              (/\ outFile = Written(pass, 0, rloc[c].src)
               /\ statFile = Written(pass, rloc[c].ts, 0))

\* C4: the timestamps a poller receives from successive GET /status.json
\* requests never decrease.
C4_PollNonDecreasing == [][pollLast' >= pollLast]_vars

\* C5: when the debounce sleep ends and the watched file does not exist,
\* the watch loop calls no render, reports no error, leaves output.html and
\* status.json as they are and is back at its receive (Idle).
C5_MissingFileSkipsRender ==
    [][(wpc = "sleep" /\ wpc' # "sleep" /\ ~srcExists) =>
          (/\ wpc' = "recv"
           /\ rpc' = rpc
           /\ pass' = pass
           /\ watchRenders' = watchRenders
           /\ outFile' = outFile
           /\ statFile' = statFile
           /\ nErr' = nErr)]_vars

\* C5 happens: a cycle was skipped for a missing file, with both artifacts
\* of an earlier render on disk and the loop back at its receive.
C5_Witness ==
    /\ lastCycle = "skipped"
    /\ wpc = "recv"
    /\ ~srcExists
    /\ outFile.state = "full"
    /\ statFile.state = "full"

\* C6: the watch loop leaves Idle (debounce sleep, render) only for a
\* notification that is content-affecting; metadata changes, accesses,
\* removals and watcher errors start nothing.
C6_OnlyContentChangesTrigger ==
    wpc \in {"sleep", "render"} => trigger \in ContentAffecting

\* C7: at most one render is in flight: the initial render is over before
\* the watch task exists, and the watch loop is inside render_markdown
\* exactly while it is at its render call, never while it receives or
\* sleeps.
C7_OneRenderInFlight ==
    /\ ~(Rendering("main") /\ Rendering("watch"))
    /\ (Rendering("main") => wpc = "notspawned")
    /\ (wpc # "notspawned" => rres["main"] = "ok")
    /\ (Rendering("watch") <=> wpc = "render")

\* C7 happens: the watch loop is in the middle of a render (between its two
\* file writes) after the initial render.
C7_Witness ==
    /\ rpc["watch"] = "outCreate"
    /\ rres["main"] = "ok"
    /\ rloc["watch"].pass = 2

\* C8: every startup error is fatal; in particular the server is never
\* serving while the watch task has died on a failed watcher setup.
C8_StartupErrorsFatal ==
    /\ (wpc = "panicked" => ~Serving)
    /\ (pcMain = "exited" => exitCode = "failure")

\* C9: a failed render in the watch loop is reported and brings the loop
\* back to its receive with the process still running; and from there a
\* qualifying notification waiting in the channel leads to the next render
\* call (or to a skipped cycle, if the file is missing when the sleep ends).
C9_RenderErrorsDoNotStop ==
    /\ [][(Rendering("watch") /\ ~Rendering("watch")' /\ rres'["watch"] = "err") =>
            (/\ wpc' = "recv"
             /\ nErr' = nErr + 1
             /\ pcMain' = pcMain
             /\ exitCode' = "running")]_vars
    /\ ((/\ lastCycle = "err"
         /\ wpc = "recv"
         /\ queue # <<>>
         /\ Qualifying(Head(queue)))
        ~> (rpc["watch"] = "read" \/ lastCycle = "skipped" \/ ~Alive))

\* C9 happens: after a failed render the loop has gone through another
\* cycle and is inside the next render.
C9_Witness ==
    /\ lastCycle = "err"
    /\ rpc["watch"] = "read"
    /\ watchRenders = 2
    /\ Serving

\* C10: once the initial render has failed, a request to the document
\* route is answered with the placeholder body.
C10_PlaceholderAfterFailedInitialRender ==
    [][(rres["main"] = "err" /\ docResp' # docResp) =>
          docResp'.kind = "placeholder"]_vars

\* C15: every status record written by a render of the watch loop carries a
\* timestamp strictly greater than the one of the initial render and than
\* the one of every earlier successful render.
C15_RerenderTimestampGrows ==
    [][(Rendering("watch") /\ statFile' # statFile /\ statFile'.state = "full") =>
          (/\ statFile'.ts > okTs
           /\ statFile'.ts > rloc["main"].ts
           /\ okTs >= rloc["main"].ts
           /\ rloc["main"].ts > 0)]_vars

\* C15 happens: a second re-render has succeeded after an earlier successful
\* re-render and the initial render.
C15_Witness ==
    /\ rres["watch"] = "ok"
    /\ ~Rendering("watch")
    /\ watchRenders = 2
    /\ statFile.state = "full"
    /\ statFile.ts = okTs
    /\ okTs > rloc["main"].ts + DebounceMs

\* C16: both artifacts are created by the initial render before the watch
\* task is spawned and before the listener is bound, the program never
\* deletes them (they exist whenever a request can be served), and
\* afterwards only a successful render of the watch loop overwrites them: a
\* file last touched by the loop's latest finished render means that render
\* returned Ok.
C16_ArtifactLifecycle ==
    /\ (wpc # "notspawned" \/ pcMain \in {"spawn", "bind", "serving"}) =>
          (outFile.state # "missing" /\ statFile.state # "missing")
    /\ (~Rendering("watch") /\ rloc["watch"].pass > 0) =>
          (/\ outFile.pass = rloc["watch"].pass => rres["watch"] = "ok"
           /\ statFile.pass = rloc["watch"].pass => rres["watch"] = "ok")

\* the qualifying notifications the watch loop has received so far: those
\* sent, less those still waiting in the channel
QualifyingReceived ==
    burst.n - Cardinality({i \in 1..Len(queue) : Qualifying(queue[i])})

\* C17: when the watch loop is idle with nothing left to receive, after at
\* least one qualifying notification, with the file existing and no error
\* reported, output.html is the document rendered from the file's current
\* contents; and every notification waiting in the channel leads to such an
\* idle state (or to the end of the process).
C17_NoLostUpdate ==
    /\ []((/\ wpc = "recv"
           /\ queue = <<>>
           /\ Alive
           /\ srcExists
           /\ nErr = 0
           /\ burst.n >= 1)
          => (outFile.state = "full" /\ outFile.src = srcVer))
    /\ (queue # <<>> ~> ((wpc = "recv" /\ queue = <<>>) \/ ~Alive))

\* C17 happens: the file was changed after the watch was registered and the
\* loop is idle again with the new contents rendered.
C17_Witness ==
    /\ wpc = "recv"
    /\ queue = <<>>
    /\ nErr = 0
    /\ srcExists
    /\ srcVer = MaxVer
    /\ outFile.state = "full"
    /\ outFile.src = MaxVer
    /\ outFile.pass >= 2

\* C19: the watch loop has made at most as many render calls as it has
\* received qualifying notifications, and exactly as many (less the one it
\* is sleeping on) while the file has always existed: none is dropped, none
\* is rendered twice. A render call is only made at the end of a debounce
\* sleep, and a sleep only starts by receiving a qualifying notification
\* from the head of the channel; a notification sent while the loop sleeps
\* or renders stays in the channel.
C19_RendersMatchNotifications ==
    /\ [](/\ watchRenders <= QualifyingReceived
          /\ (~Registered => watchRenders = 0 /\ queue = <<>>)
          /\ (Registered /\ ~burst.gone) =>
                watchRenders = QualifyingReceived - (IF wpc = "sleep" THEN 1 ELSE 0))
    /\ [][/\ watchRenders' # watchRenders =>
                (wpc = "sleep" /\ watchRenders' = watchRenders + 1)
          /\ (wpc' = "sleep" /\ wpc # "sleep") =>
                (/\ wpc = "recv"
                 /\ queue # <<>>
                 /\ Head(queue) \in {"ModifyData", "ModifyMetadata", "Create"}
                 /\ queue' = Tail(queue))
          /\ (wpc \in {"sleep", "render"} /\ Len(queue') < Len(queue)) => FALSE]_vars

\* C19 happens: a qualifying notification was sent while the loop was busy
\* with an earlier one, waited in the channel and got its own render.
C19_Witness ==
    /\ watchRenders = 2
    /\ QualifyingReceived = 2
    /\ wpc = "render"
    /\ nEvents = 2

\* a pending request is answered by this step
Answered == req.phase = "pending" /\ req'.phase = "answered"

\* C11: a request on "/" or on "/output.html" is answered with exactly what
\* output.html holds at the moment of the request (one route answers as the
\* other does, nothing is cached between requests), and with the fixed
\* placeholder, never with an error, when the file cannot be read.
C11_DocumentServedAsOnDisk ==
    [][(Answered /\ req.route \in {"/", "/output.html"}) =>
          /\ outFile.state = "missing" => docResp' = [kind |-> "placeholder", pass |-> 0]
          /\ outFile.state = "truncated" => docResp' = [kind |-> "empty", pass |-> 0]
          /\ outFile.state = "full" => docResp' = [kind |-> "document", pass |-> outFile.pass]
          /\ docResp'.kind \notin {"error", "not_found"}]_vars

\* "/output.html" has been answered with the placeholder for a document that
\* the watch loop had re-rendered and that was deleted afterwards
C11_Witness ==
    /\ req = [route |-> "/output.html", phase |-> "answered"]
    /\ docResp.kind = "placeholder"
    /\ outFile.state = "missing"
    /\ watchRenders >= 1
    /\ rres["watch"] = "ok"

\* C12: a request on "/status.json" is answered with the timestamp that
\* status.json holds at the moment of the request, and with the timestamp zero,
\* never with an error, when the file is missing or does not hold a record.
C12_StatusServedAsOnDisk ==
    [][(Answered /\ req.route = "/status.json") =>
          /\ statFile.state = "full" => pollLast' = statFile.ts
          /\ statFile.state # "full" => pollLast' = 0
          /\ docResp' = docResp]_vars

\* the status route has answered zero for a deleted status file that held a
\* timestamp of a successful render
C12_Witness ==
    /\ req = [route |-> "/status.json", phase |-> "answered"]
    /\ pollLast = 0
    /\ statFile.state = "missing"
    /\ okTs > 0

\* C13: answering a request, on any route and in any state, changes neither the
\* Markdown source nor the two generated files; the generated files are written
\* only by a render in progress, and a render is started only by the initial
\* render of main and by the watch loop after its debounce.
C13_HandlersReadOnly ==
    /\ [][(req' # req \/ pollLast' # pollLast \/ docResp' # docResp) =>
             (/\ outFile' = outFile
              /\ statFile' = statFile
              /\ srcVer' = srcVer
              /\ srcExists' = srcExists)]_vars
    /\ [][((outFile' # outFile /\ outFile' # NoFile)
           \/ (statFile' # statFile /\ statFile' # NoFile)) =>
             (\E c \in Callers : Rendering(c) /\ rpc'[c] # rpc[c])]_vars
    /\ [][pass' # pass =>
             (\/ pcMain = "exists" /\ rpc'["main"] # "idle"
              \/ wpc = "sleep" /\ rpc'["watch"] # "idle")]_vars

\* every route has a case: the unknown path was answered with 404 while the
\* status file was unreadable and the watch loop had re-rendered the document
C13_Witness ==
    /\ req = [route |-> "/favicon.ico", phase |-> "answered"]
    /\ docResp.kind = "not_found"
    /\ statFile.state # "full"
    /\ outFile.pass = 2

\* C14: the client remembers the timestamp of its fetch on load, and a poll
\* that observes a timestamp different from the remembered one reloads the
\* page, whatever the fetch on load gave and whatever value is observed, zero
\* included: a client that keeps polling after a poll has observed what it
\* remembers.
C14_PollReloadsOnDifference ==
    (bpc = "polling" /\ bSeen # <<>>) => bSeen = bLast

\* C18: once the last render has succeeded and nothing is left to render, a
\* client that keeps polling and remembers the timestamp of that render
\* shows the document of that render.
C18_ClientShowsLatest ==
    (/\ \A c \in Callers : ~Rendering(c)
     /\ nErr = 0
     /\ outFile.state = "full"
     /\ statFile.state = "full"
     /\ statFile.pass = outFile.pass
     /\ bpc = "polling"
     /\ bLast = <<statFile.ts>>)
        => bShown = [kind |-> "document", pass |-> outFile.pass]

====
